---- MODULE Spec2Model ----
(***************************************************************************)
(* Model of app.py, the Streamlit HEIC -> PNG/JPG batch converter.         *)
(*                                                                         *)
(* The script is re-executed from the top on every interaction (a rerun).  *)
(* A rerun that does not click "Convert Files" is one atomic action.  A    *)
(* rerun that clicks it is split at the iterations of the conversion loop: *)
(* ConvertClick (lines 62-70), ProcessItem (one pass of lines 72-112) and  *)
(* Assemble (lines 114-179, the zip, the session-state writes and the      *)
(* download section).                                                      *)
(*                                                                         *)
(* File names are sequences of one-character strings.  An image is a mode, *)
(* a sequence of pixels and (mode P) a palette; pixels are tuples of 8-bit *)
(* channel values.  Encoded bytes are the record of what was encoded.      *)
(***************************************************************************)
EXTENDS Integers, Sequences, FiniteSets, TLC

VARIABLES
    output_format,    \* sidebar radio, line 24: "PNG" | "JPG"
    quality,          \* line 37/39: 95 | 10 | NoQuality
    uploaded_files,   \* line 46: sequence of uploaded file objects
    session_state,    \* st.session_state, lines 131-144
    pc,               \* "idle" | "loop" | "assemble": position of the running script
    idx,              \* loop index of line 72 (1-based)
    converted_files,  \* line 66: sequence of (output_path, output_filename)
    errors,           \* line 67: sequence of error strings
    temp_dir,         \* line 65: files staged in the temporary directory, path -> bytes
    page,             \* what the last finished rerun rendered
    origin,           \* history: the input positions behind converted_files and errors
    stamp             \* history: which convert invocation wrote each session_state key

vars == <<output_format, quality, uploaded_files, session_state, pc, idx,
          converted_files, errors, temp_dir, page, origin, stamp>>

----------------------------------------------------------------------------
(* Bounds of the model *)

\* longest batch the uploader hands over
MaxFiles == 2
\* longest file-name base (the part before the container extension), NamesSpec only
MaxBase == 2
\* pixels per image, PixelSpec only
MaxPixels == 1

\* quality = None, line 39
NoQuality == 0
\* mask=None, line 91
NoMask == <<>>

----------------------------------------------------------------------------
(* File names *)

Dot == "."

RECURSIVE Rfind(_, _, _)
\* str.rfind: the last position p <= i with s[p] = c, 0 when there is none
Rfind(s, c, i) ==
    IF i = 0 THEN 0
    ELSE IF s[i] = c THEN i
    ELSE Rfind(s, c, i - 1)

RECURSIVE Find(_, _, _)
\* the first position p >= i with s[p] = c, 0 when there is none
Find(s, c, i) ==
    IF i > Len(s) THEN 0
    ELSE IF s[i] = c THEN i
    ELSE Find(s, c, i + 1)

\* a plausible slip: the name is cut at its first dot instead of its last
StemAtFirstDot(name) ==
    LET p == Find(name, Dot, 1)
    IN  IF 1 < p /\ p < Len(name) THEN SubSeq(name, 1, p - 1) ELSE name

\* pathlib: Path(name).stem, line 97.  The suffix starts at the last dot,
\* unless that dot is the first or the last character of the name.
Stem(name) ==
    LET p == Rfind(name, Dot, Len(name))
    IN  IF 1 < p /\ p < Len(name) THEN SubSeq(name, 1, p - 1) ELSE name

\* line 98
Extension(fmt) == IF fmt = "PNG" THEN <<"p", "n", "g">> ELSE <<"j", "p", "g">>

\* lines 97-99: f"{base_name}.{extension}"
OutputFilename(name, fmt) == Stem(name) \o <<Dot>> \o Extension(fmt)

\* line 100: os.path.join(temp_dir, output_filename); a path is named by its
\* place inside the temporary directory
OutputPath(name, fmt) == OutputFilename(name, fmt)

----------------------------------------------------------------------------
(* Images *)

\* (255, 255, 255), line 88
White == <<255, 255, 255>>

\* ImagingPaste's DIV255: rounding division by 255
Div255(a) == LET tmp == a + 128 IN ((tmp \div 256) + tmp) \div 256

\* ImagingPaste's BLEND8: in1 where the mask is 0, in2 where it is 255
Blend8(mask, in1, in2) == Div255(in1 * (255 - mask) + in2 * mask)

\* Image.convert(mode) on one pixel
ConvertPixel(img, p, mode) ==
    LET rgba == CASE img.mode = "RGB"  -> <<p[1], p[2], p[3], 255>>
                  [] img.mode = "RGBA" -> p
                  [] img.mode = "L"    -> <<p[1], p[1], p[1], 255>>
                  [] img.mode = "LA"   -> <<p[1], p[1], p[1], p[2]>>
                  [] img.mode = "P"    -> img.palette[p[1]]
    IN  IF mode = "RGBA" THEN rgba ELSE <<rgba[1], rgba[2], rgba[3]>>

\* Image.convert(mode), lines 90 and 94
Convert(img, mode) ==
    [mode |-> mode,
     px |-> [i \in 1..Len(img.px) |-> ConvertPixel(img, img.px[i], mode)],
     palette |-> <<>>]

\* Image.new("RGB", size, (255, 255, 255)), line 88
NewWhite(size) == [mode |-> "RGB", px |-> [i \in 1..size |-> White], palette |-> <<>>]

\* image.split()[-1], line 91: the last band of the image
LastBand(img) == [i \in 1..Len(img.px) |-> img.px[i][Len(img.px[i])]]

\* the first three stored bytes of a pixel: LA is stored as (L, L, L, A)
Stored3(img, p) ==
    IF img.mode = "LA" THEN <<p[1], p[1], p[1]>> ELSE <<p[1], p[2], p[3]>>

\* rgb_image.paste(image, mask=...), line 91.  With a mask every channel is
\* blended through it; without one the stored pixel bytes are copied.
Paste(dst, src, mask) ==
    [dst EXCEPT !.px =
        [i \in 1..Len(dst.px) |->
            LET s == Stored3(src, src.px[i])
            IN  IF mask = NoMask THEN s
                ELSE [c \in 1..3 |-> Blend8(mask[i], dst.px[i][c], s[c])]]]

\* lines 86-94: color-mode normalization for the JPG target
Normalize(image, fmt) ==
    IF fmt = "JPG" /\ image.mode \in {"RGBA", "LA", "P"} THEN
        LET rgb_image == NewWhite(Len(image.px))
            image2 == IF image.mode = "P" THEN Convert(image, "RGBA") ELSE image
            mask == IF image2.mode = "RGBA" THEN LastBand(image2) ELSE NoMask
        IN  Paste(rgb_image, image2, mask)
    ELSE IF fmt = "JPG" THEN Convert(image, "RGB")
    ELSE image

\* lines 103-106: image.save(...); the bytes written name what was encoded
Encode(image, fmt, q) ==
    [format |-> IF fmt = "PNG" THEN "PNG" ELSE "JPEG",
     quality |-> IF fmt = "PNG" THEN NoQuality ELSE q,
     optimize |-> TRUE,
     image |-> image]

\* what is left of a staged file when save() fails after opening it "w+b"
TruncatedFile ==
    [format |-> "", quality |-> NoQuality, optimize |-> FALSE,
     image |-> [mode |-> "", px |-> <<>>, palette |-> <<>>]]

\* len() of encoded bytes, abstracted to the number of pixels they hold
ByteLen(bytes) == Len(bytes.image.px)

----------------------------------------------------------------------------
(* Uploaded files *)

\* An uploaded file: its name, its decoded content and how it is damaged.
\* Every rerun is handed streams positioned at their start, so that the
\* read() of line 80 returns the whole content.
\*   "corrupt"      Image.open cannot identify the data (line 83)
\*   "truncated"    the header opens, the pixel data fails to load
\*   "unencodable"  the encoder rejects the loaded image inside save()
Faults == {"none", "corrupt", "truncated", "unencodable"}

File(name, image, fault) ==
    [name |-> name, image |-> image, fault |-> fault]

Image(mode, px, palette) == [mode |-> mode, px |-> px, palette |-> palette]

NameA1 == <<"a", ".", "h", "e", "i", "c">>
NameA2 == <<"a", ".", "H", "E", "I", "F">>
NameB  == <<"b", ".", "h", "e", "i", "c">>

ImgRed   == Image("RGB", <<<<255, 0, 0>>>>, <<>>)
ImgClear == Image("RGBA", <<<<0, 0, 0, 0>>>>, <<>>)

\* the files the uploader offers under Spec
Catalog ==
    { File(NameA1, ImgRed, "none"),
      File(NameA2, ImgClear, "none"),
      File(NameA2, ImgClear, "unencodable"),
      File(NameB, ImgRed, "corrupt") }

\* the files a batch is drawn from under BatchSpec
BatchCatalog ==
    { File(n, c.image, c.fault) :
        n \in {NameA1, NameA2, NameB},
        c \in { [image |-> ImgRed, fault |-> "none"],
                [image |-> ImgClear, fault |-> "none"],
                [image |-> ImgRed, fault |-> "corrupt"],
                [image |-> ImgRed, fault |-> "truncated"],
                [image |-> ImgClear, fault |-> "unencodable"] } }

RECURSIVE SeqsUpTo(_, _)
\* the sequences over S of length at most n
SeqsUpTo(S, n) ==
    IF n = 0 THEN {<<>>}
    ELSE LET shorter == SeqsUpTo(S, n - 1)
         IN  shorter \cup {Append(s, x) : s \in {t \in shorter : Len(t) = n - 1}, x \in S}

Batches == SeqsUpTo(Catalog, MaxFiles)

----------------------------------------------------------------------------
(* Session state and the page *)

Keys == {"zip_data", "zip_filename", "conversion_complete", "converted_count",
         "zip_size", "conversion_errors", "output_format"}

\* st.session_state.key = value
Put(ss, k, v) == [x \in DOMAIN ss \cup {k} |-> IF x = k THEN v ELSE ss[x]]

\* st.session_state.get(key, default)
Get(ss, k, default) == IF k \in DOMAIN ss THEN ss[k] ELSE default

\* line 151
ConversionComplete(ss) == Get(ss, "conversion_complete", FALSE)

\* lines 151-182: what a rerun that ends here leaves on the page
Render(ss, error, ran, clicked) ==
    [error |-> error,
     ran |-> ran,
     download |-> ConversionComplete(ss),
     balloons |-> ConversionComplete(ss) /\ clicked]

NoStamps == [k \in Keys |-> "never"]

\* a new convert invocation: what the previous ones wrote is no longer the latest
Age(st) == [k \in Keys |-> IF st[k] = "latest" THEN "older" ELSE st[k]]

Mark(st, ks) == [k \in Keys |-> IF k \in ks THEN "latest" ELSE st[k]]

NoOrigin == [conv |-> <<>>, err |-> <<>>]

EmptyDict == <<>>

\* line 120: f"heic_converted_{output_format.lower()}.zip"
ZipFilename(fmt) == <<"heic_converted_", IF fmt = "PNG" THEN "png" ELSE "jpg", ".zip">>

RECURSIVE ZipSize(_)
\* line 128: len(zip_buffer.getvalue()), in the unit of ByteLen
ZipSize(entries) ==
    IF entries = <<>> THEN 0
    ELSE ByteLen(Head(entries).data) + ZipSize(Tail(entries))

\* a plausible slip: the entries are written last to first
ZipWriteReversed(files, dir) ==
    [k \in 1..Len(files) |->
        [name |-> files[Len(files) + 1 - k][2],
         data |-> dir[files[Len(files) + 1 - k][1]]]]

\* lines 123-125: one entry per element of converted_files, in its order, named
\* by the output filename and holding what the staged file holds now
ZipWrite(files, dir) ==
    [k \in 1..Len(files) |-> [name |-> files[k][2], data |-> dir[files[k][1]]]]

----------------------------------------------------------------------------
(* The script *)

Init ==
    /\ output_format = "PNG"
    /\ quality = NoQuality
    /\ uploaded_files = <<>>
    /\ session_state = EmptyDict
    /\ pc = "idle"
    /\ idx = 0
    /\ converted_files = <<>>
    /\ errors = <<>>
    /\ temp_dir = EmptyDict
    /\ page = Render(EmptyDict, "none", FALSE, FALSE)
    /\ origin = NoOrigin
    /\ stamp = NoStamps

\* a rerun that does not convert: the locals of the previous run are gone and
\* the page is rendered from session state (lines 151-182)
PlainRerun(clicked) ==
    /\ page' = Render(session_state, "none", FALSE, clicked)
    /\ origin' = NoOrigin
    /\ UNCHANGED <<session_state, pc, idx, converted_files, errors, temp_dir, stamp>>

\* a plausible slip: a new upload forgets the finished conversion
UploadClearing(files) ==
    /\ pc = "idle"
    /\ uploaded_files' = files
    /\ session_state' = Put(session_state, "conversion_complete", FALSE)
    /\ page' = Render(session_state', "none", FALSE, FALSE)
    /\ origin' = NoOrigin
    /\ UNCHANGED <<output_format, quality, pc, idx, converted_files, errors,
                   temp_dir, stamp>>

\* line 46: the user changes the selection of the file uploader
Upload(files) ==
    /\ pc = "idle"
    /\ uploaded_files' = files
    /\ PlainRerun(FALSE)
    /\ UNCHANGED <<output_format, quality>>

\* lines 24-40: the user picks the other output format; the quality radio
\* exists only for JPG and starts at "Highest Quality"
SetFormat(fmt) ==
    /\ pc = "idle"
    /\ fmt # output_format
    /\ output_format' = fmt
    /\ quality' = IF fmt = "JPG" THEN 95 ELSE NoQuality
    /\ PlainRerun(FALSE)
    /\ UNCHANGED uploaded_files

\* lines 31-37: the user picks the other quality preset
SetQuality(q) ==
    /\ pc = "idle"
    /\ output_format = "JPG"
    /\ q # quality
    /\ quality' = q
    /\ PlainRerun(FALSE)
    /\ UNCHANGED <<output_format, uploaded_files>>

\* lines 163-172: the user clicks the download button
DownloadClick ==
    /\ pc = "idle"
    /\ page.download
    /\ PlainRerun(TRUE)
    /\ UNCHANGED <<output_format, quality, uploaded_files>>

\* lines 53-70: the user clicks "Convert Files"
ConvertClick ==
    /\ pc = "idle"
    /\ uploaded_files # <<>>
    /\ pc' = "loop"
    /\ idx' = 1
    /\ converted_files' = <<>>
    /\ errors' = <<>>
    /\ temp_dir' = EmptyDict
    /\ origin' = NoOrigin
    /\ stamp' = Age(stamp)
    /\ UNCHANGED <<output_format, quality, uploaded_files, session_state, page>>

\* line 72: the for statement moves on to the next file, or ends after the last
Continue ==
    /\ idx' = idx + 1
    /\ pc' = IF idx = Len(uploaded_files) THEN "assemble" ELSE "loop"

\* a plausible slip: the try statement encloses the loop, so that the first
\* failure ends it
FailAborting(f, message) ==
    /\ errors' = Append(errors, <<f.name, message>>)
    /\ origin' = [origin EXCEPT !.err = Append(@, idx)]
    /\ idx' = idx + 1
    /\ pc' = "assemble"
    /\ UNCHANGED converted_files

\* a plausible slip: the except branch only warns
FailUnrecorded(f, message) ==
    /\ origin' = [origin EXCEPT !.err = Append(@, idx)]
    /\ Continue
    /\ UNCHANGED <<errors, converted_files>>

\* lines 110-112: the except branch, inside the loop
Fail(f, message) ==
    /\ errors' = Append(errors, <<f.name, message>>)
    /\ origin' = [origin EXCEPT !.err = Append(@, idx)]
    /\ Continue
    /\ UNCHANGED converted_files

\* lines 72-112: one pass of the conversion loop
ProcessItem ==
    /\ pc = "loop"
    /\ LET f == uploaded_files[idx]
           output_filename == OutputFilename(f.name, output_format)
           output_path == OutputPath(f.name, output_format)
           image == Normalize(f.image, output_format)
       IN  /\ IF f.fault = "corrupt" THEN
                  \* lines 80-83: Image.open raises
                  /\ Fail(f, "cannot identify image file")
                  /\ UNCHANGED temp_dir
              ELSE IF f.fault = "truncated" THEN
                  \* the pixel data is loaded by convert/split/paste (lines 90-94)
                  \* or by save() before it opens the output (lines 104-106)
                  /\ Fail(f, "image file is truncated")
                  /\ UNCHANGED temp_dir
              ELSE IF f.fault = "unencodable" THEN
                  \* lines 104-106: save() has opened output_path for writing when
                  \* the encoder raises; a file it created itself may be removed
                  /\ Fail(f, "encoder error")
                  /\ \E removed \in BOOLEAN :
                        temp_dir' = IF output_path \notin DOMAIN temp_dir /\ removed
                                    THEN temp_dir
                                    ELSE Put(temp_dir, output_path, TruncatedFile)
              ELSE
                  \* lines 103-108
                  /\ temp_dir' = Put(temp_dir, output_path,
                                     Encode(image, output_format, quality))
                  /\ converted_files' = Append(converted_files,
                                               <<output_path, output_filename>>)
                  /\ origin' = [origin EXCEPT !.conv = Append(@, idx)]
                  /\ Continue
                  /\ UNCHANGED errors
    /\ UNCHANGED <<output_format, quality, uploaded_files, session_state, page, stamp>>

\* a plausible slip: a batch-level failure leaves the flag of an earlier success
BatchFailureKeepingFlag(error) ==
    /\ page' = Render(session_state, error, TRUE, FALSE)
    /\ UNCHANGED <<session_state, stamp>>

\* a plausible slip: both batch-level failures show the same message
BatchFailureOneMessage(error) ==
    /\ session_state' = Put(session_state, "conversion_complete", FALSE)
    /\ stamp' = Mark(stamp, {"conversion_complete"})
    /\ page' = Render(session_state', "empty", TRUE, FALSE)

\* lines 139-144: a batch-level failure
BatchFailure(error) ==
    /\ session_state' = Put(session_state, "conversion_complete", FALSE)
    /\ stamp' = Mark(stamp, {"conversion_complete"})
    /\ page' = Render(session_state', error, TRUE, FALSE)

\* lines 114-179: the archive, the session-state writes, the download section
Assemble ==
    /\ pc = "assemble"
    /\ \E zip_fault \in BOOLEAN :
          IF converted_files # <<>> THEN
              IF zip_fault \/ \E k \in 1..Len(converted_files) :
                                 converted_files[k][1] \notin DOMAIN temp_dir
              THEN BatchFailure("zipfail")
              ELSE LET zip_data == ZipWrite(converted_files, temp_dir)
                       s1 == Put(session_state, "zip_data", zip_data)
                       s2 == Put(s1, "zip_filename", ZipFilename(output_format))
                       s3 == Put(s2, "conversion_complete", TRUE)
                       s4 == Put(s3, "converted_count", Len(converted_files))
                       s5 == Put(s4, "zip_size", ZipSize(zip_data))
                       s6 == Put(s5, "conversion_errors", errors)
                       s7 == Put(s6, "output_format", output_format)
                   IN  /\ session_state' = s7
                       /\ stamp' = Mark(stamp, Keys)
                       /\ page' = Render(session_state', "none", TRUE, FALSE)
          ELSE BatchFailure("empty")
    /\ pc' = "idle"
    /\ idx' = 0
    /\ converted_files' = <<>>
    /\ errors' = <<>>
    /\ temp_dir' = EmptyDict
    /\ UNCHANGED <<output_format, quality, uploaded_files, origin>>

Next ==
    \/ \E files \in Batches : Upload(files)
    \/ \E fmt \in {"PNG", "JPG"} : SetFormat(fmt)
    \/ \E q \in {95, 10} : SetQuality(q)
    \/ DownloadClick
    \/ ConvertClick
    \/ ProcessItem
    \/ Assemble

Spec == Init /\ [][Next]_vars

\* the state a script run starts from when nothing was converted before
Fresh(files, fmt, q) ==
    /\ output_format = fmt
    /\ quality = q
    /\ uploaded_files = files
    /\ session_state = EmptyDict
    /\ pc = "idle"
    /\ idx = 0
    /\ converted_files = <<>>
    /\ errors = <<>>
    /\ temp_dir = EmptyDict
    /\ page = Render(EmptyDict, "none", FALSE, FALSE)
    /\ origin = NoOrigin
    /\ stamp = NoStamps

\* the settings the sidebar can hold, lines 24-39
Settings == {<<"PNG", NoQuality>>, <<"JPG", 95>>, <<"JPG", 10>>}

\* one batch, already uploaded, under any setting of the sidebar
InitBatch ==
    \E files \in SeqsUpTo(BatchCatalog, MaxFiles), s \in Settings :
        Fresh(files, s[1], s[2])

\* the reruns of a session whose uploads do not change
NextBatch ==
    \/ \E fmt \in {"PNG", "JPG"} : SetFormat(fmt)
    \/ \E q \in {95, 10} : SetQuality(q)
    \/ DownloadClick
    \/ ConvertClick
    \/ ProcessItem
    \/ Assemble

BatchSpec == InitBatch /\ [][NextBatch]_vars

----------------------------------------------------------------------------
(* Single-file batches over many images, and over many file names *)

RECURSIVE SeqsOfLen(_, _)
\* the sequences over S of length exactly n
SeqsOfLen(S, n) ==
    IF n = 0 THEN {<<>>} ELSE {Append(s, x) : s \in SeqsOfLen(S, n - 1), x \in S}

Colors == {<<0, 0, 0>>, <<255, 0, 0>>, <<100, 100, 100>>, White}
Levels == {0, 100, 255}
Alphas == {0, 128, 255}
PaletteEntries == {<<0, 0, 0, 0>>, <<255, 0, 0, 255>>, <<0, 0, 0, 255>>}

\* the pixel values of a mode; a P pixel is an index into the palette
PixelsOf(mode) ==
    CASE mode = "RGB"  -> Colors
      [] mode = "RGBA" -> {c \o <<a>> : c \in Colors, a \in Alphas}
      [] mode = "L"    -> {<<l>> : l \in Levels}
      [] mode = "LA"   -> {<<l, a>> : l \in Levels, a \in Alphas}
      [] mode = "P"    -> {<<1>>, <<2>>}

PalettesOf(mode) ==
    IF mode = "P" THEN SeqsOfLen(PaletteEntries, 2) ELSE {<<>>}

\* the images of 1..MaxPixels pixels a decoder can hand over
Images ==
    UNION { { Image(mode, px, pal) :
                px \in UNION {SeqsOfLen(PixelsOf(mode), n) : n \in 1..MaxPixels},
                pal \in PalettesOf(mode) } :
            mode \in {"RGB", "RGBA", "L", "LA", "P"} }

InitPixel ==
    \E image \in Images, s \in Settings :
        Fresh(<<File(NameA1, image, "none")>>, s[1], s[2])

PixelSpec == InitPixel /\ [][NextBatch]_vars

\* the extensions the uploader accepts (line 48), in the cases users type them
ContainerExtensions ==
    { <<"h", "e", "i", "c">>, <<"H", "E", "I", "C">>,
      <<"h", "e", "i", "f">>, <<"H", "e", "i", "f">> }

\* the bases of 1..MaxBase characters that hold something besides dots
Bases ==
    { b \in UNION {SeqsOfLen({"a", "B", Dot}, n) : n \in 1..MaxBase} :
        \E i \in 1..Len(b) : b[i] # Dot }

UploadNames == { b \o <<Dot>> \o e : b \in Bases, e \in ContainerExtensions }

InitNames ==
    \E name \in UploadNames, s \in Settings :
        Fresh(<<File(name, ImgRed, "none")>>, s[1], s[2])

NamesSpec == InitNames /\ [][NextBatch]_vars

----------------------------------------------------------------------------
(* Properties *)

\* the script run that just ended converted the batch still uploaded
Ran == pc = "idle" /\ page.ran

\* ... and stored its archive
Stored == Ran /\ page.error = "none"

Count(seq, x) == Cardinality({k \in 1..Len(seq) : seq[k] = x})

\* the bytes the file at input position i is encoded to under the current settings
OwnBytes(i) ==
    Encode(Normalize(uploaded_files[i].image, output_format), output_format, quality)

OwnName(i) == OutputFilename(uploaded_files[i].name, output_format)

\* C1: when the loop has finished, every input position has produced exactly
\* one success or exactly one error, so that len(converted_files) + len(errors)
\* = len(uploaded_files); and after a successful batch the stored
\* converted_count + len(conversion_errors) is the number of sources.
C1_OneOutcomePerItem ==
    /\ pc = "assemble" =>
          /\ Len(converted_files) + Len(errors) = Len(uploaded_files)
          /\ Len(origin.conv) = Len(converted_files)
          /\ Len(origin.err) = Len(errors)
          /\ \A i \in 1..Len(uploaded_files) :
                Count(origin.conv, i) + Count(origin.err, i) = 1
    /\ Stored =>
          Get(session_state, "converted_count", 0)
            + Len(Get(session_state, "conversion_errors", <<>>)) = Len(uploaded_files)

\* C1 witness: a stored batch with a success and a failure
C1_Witness ==
    /\ Stored
    /\ Get(session_state, "converted_count", 0) >= 1
    /\ Len(Get(session_state, "conversion_errors", <<>>)) >= 1

\* C2: a failing item never ends the loop: while the loop runs the positions
\* before idx, and after it all positions, have each been processed exactly
\* once, the loop ends only after the last position, and every failure met is
\* in the error list under the name of its file, beside the successes.
C2_FailureDoesNotAbort ==
    pc \in {"loop", "assemble"} =>
        LET n == Len(uploaded_files)
            done == idx - 1
        IN  /\ pc = "loop" => idx \in 1..n
            /\ pc = "assemble" => done = n
            /\ \A i \in 1..n :
                  Count(origin.conv, i) + Count(origin.err, i) = IF i <= done THEN 1 ELSE 0
            /\ Len(errors) = Len(origin.err)
            /\ Len(converted_files) = Len(origin.conv)
            /\ \A i \in 1..done :
                  uploaded_files[i].fault # "none" =>
                      \E k \in 1..Len(errors) :
                          /\ origin.err[k] = i
                          /\ errors[k][1] = uploaded_files[i].name

\* C2 witness: the first file failed and the second was converted after it
C2_Witness ==
    /\ pc = "assemble"
    /\ origin.err = <<1>>
    /\ origin.conv = <<2>>
    /\ Len(errors) = 1
    /\ Len(converted_files) = 1

\* C3: a conversion in which every item failed ends as a batch-level failure:
\* it shows the no-successes message, writes no archive, leaves
\* conversion_complete False and offers no download, whatever an earlier
\* invocation had stored.
C3_AllFailedNoArchive ==
    (Ran /\ origin.conv = <<>>) =>
        /\ page.error = "empty"
        /\ "conversion_complete" \in DOMAIN session_state
        /\ session_state["conversion_complete"] = FALSE
        /\ ~page.download
        /\ ~page.balloons
        /\ stamp["zip_data"] # "latest"

\* C3 witness: every item failed while the archive of an earlier success is
\* still in session state
C3_Witness ==
    /\ Ran
    /\ origin.conv = <<>>
    /\ Len(origin.err) = Len(uploaded_files)
    /\ "zip_data" \in DOMAIN session_state
    /\ stamp["zip_data"] = "older"

\* C4: after a batch with at least one success the archive holds, for every
\* converted item and in their order, an entry named by the item's output
\* name that holds the item's own encoded bytes, and converted_count is the
\* number of entries.
C4_ArchiveHoldsEveryItem ==
    Stored =>
        LET zip == Get(session_state, "zip_data", <<>>)
        IN  /\ Len(zip) = Len(origin.conv)
            /\ Get(session_state, "converted_count", 0) = Len(zip)
            /\ \A k \in 1..Len(origin.conv) :
                  /\ zip[k].name = OwnName(origin.conv[k])
                  /\ zip[k].data = OwnBytes(origin.conv[k])

\* C5: order is preserved: the positions behind converted_files, behind the
\* archive entries and behind the error list are strictly increasing, and
\* each entry and each error carries the name of the file at its position.
C5_InputOrderPreserved ==
    /\ \A k \in 1..Len(origin.conv) :
          \A m \in 1..Len(origin.conv) : k < m => origin.conv[k] < origin.conv[m]
    /\ \A k \in 1..Len(origin.err) :
          \A m \in 1..Len(origin.err) : k < m => origin.err[k] < origin.err[m]
    /\ pc \in {"loop", "assemble"} =>
          /\ Len(converted_files) = Len(origin.conv)
          /\ Len(errors) = Len(origin.err)
          /\ \A k \in 1..Len(converted_files) :
                converted_files[k][2] = OwnName(origin.conv[k])
          /\ \A k \in 1..Len(errors) :
                errors[k][1] = uploaded_files[origin.err[k]].name
    /\ Stored =>
          LET zip == Get(session_state, "zip_data", <<>>)
              errs == Get(session_state, "conversion_errors", <<>>)
          IN  /\ Len(zip) = Len(origin.conv)
              /\ Len(errs) = Len(origin.err)
              /\ \A k \in 1..Len(zip) : zip[k].name = OwnName(origin.conv[k])
              /\ \A k \in 1..Len(errs) : errs[k][1] = uploaded_files[origin.err[k]].name

\* C5 witness: an archive of two entries with different names
C5_Witness ==
    /\ Stored
    /\ Len(Get(session_state, "zip_data", <<>>)) >= 2
    /\ session_state["zip_data"][1].name # session_state["zip_data"][2].name

\* the alpha of pixel i of a transparency-capable image
SourceAlpha(img, i) ==
    CASE img.mode = "RGBA" -> img.px[i][4]
      [] img.mode = "LA"   -> img.px[i][2]
      [] img.mode = "P"    -> img.palette[img.px[i][1]][4]

\* the colour of pixel i of a transparency-capable image
SourceColor(img, i) ==
    CASE img.mode = "RGBA" -> <<img.px[i][1], img.px[i][2], img.px[i][3]>>
      [] img.mode = "LA"   -> <<img.px[i][1], img.px[i][1], img.px[i][1]>>
      [] img.mode = "P"    -> LET e == img.palette[img.px[i][1]] IN <<e[1], e[2], e[3]>>

\* C6: for the JPG target and a source of mode RGBA, LA or P, the encoded
\* image is the source composited onto opaque white of the same size through
\* the source's own alpha, so that every fully transparent pixel of the source
\* is opaque white in the output.
C6_TransparentBecomesWhite ==
    (Stored /\ output_format = "JPG"
            /\ uploaded_files[1].image.mode \in {"RGBA", "LA", "P"}) =>
        LET src == uploaded_files[1].image
            out == session_state["zip_data"][1].data.image
        IN  /\ out.mode = "RGB"
            /\ Len(out.px) = Len(src.px)
            /\ \A i \in 1..Len(src.px) :
                  /\ \A c \in 1..3 :
                        out.px[i][c] = Blend8(SourceAlpha(src, i), 255, SourceColor(src, i)[c])
                  /\ SourceAlpha(src, i) = 0 => out.px[i] = White

\* The same statement for the modes RGBA and P alone.
C6_DirectAlphaAndPalette ==
    (Stored /\ output_format = "JPG"
            /\ uploaded_files[1].image.mode \in {"RGBA", "P"}) =>
        LET src == uploaded_files[1].image
            out == session_state["zip_data"][1].data.image
        IN  /\ out.mode = "RGB"
            /\ Len(out.px) = Len(src.px)
            /\ \A i \in 1..Len(src.px) :
                  /\ \A c \in 1..3 :
                        out.px[i][c] = Blend8(SourceAlpha(src, i), 255, SourceColor(src, i)[c])
                  /\ SourceAlpha(src, i) = 0 => out.px[i] = White

\* the name without its last extension, followed by the extension of the format
IsStrippedName(out, name, fmt) ==
    \E n \in 1..Len(name) :
        /\ name[n] = Dot
        /\ \A m \in (n + 1)..Len(name) : name[m] # Dot
        /\ out = SubSeq(name, 1, n - 1)
                   \o (IF fmt = "PNG" THEN <<".", "p", "n", "g">> ELSE <<".", "j", "p", "g">>)

\* C7: the output name of every converted item, in converted_files and in the
\* archive, is the source name without its last extension followed by ".png"
\* for PNG and ".jpg" for JPG, whatever the extension of the source and its case.
C7_EntryNameIsStemPlusExtension ==
    /\ \A k \in 1..Len(converted_files) :
          IsStrippedName(converted_files[k][2],
                         uploaded_files[origin.conv[k]].name, output_format)
    /\ Stored =>
          \A k \in 1..Len(session_state["zip_data"]) :
              IsStrippedName(session_state["zip_data"][k].name,
                             uploaded_files[origin.conv[k]].name, output_format)

\* C7 witness: .a.HEIC has become the archive entry .a.jpg
C7_Witness ==
    /\ Stored
    /\ output_format = "JPG"
    /\ uploaded_files[1].name = <<".", "a", ".", "H", "E", "I", "C">>
    /\ session_state["zip_data"][1].name = <<".", "a", ".", "j", "p", "g">>

\* C8: the outcome of a conversion shows on the page: the no-successes
\* message exactly when nothing was converted; after at least one success
\* either the zip-failure message, with no archive written, conversion_complete
\* False and no download, or no message, with the archive written by this
\* invocation, conversion_complete True, the download offered and the
\* per-item errors stored beside it.
C8_OutcomesDistinguishable ==
    Ran =>
        /\ page.error \in {"none", "empty", "zipfail"}
        /\ page.error = "empty" <=> origin.conv = <<>>
        /\ page.error # "none" =>
              /\ ConversionComplete(session_state) = FALSE
              /\ ~page.download
              /\ stamp["zip_data"] # "latest"
        /\ page.error = "none" =>
              /\ ConversionComplete(session_state) = TRUE
              /\ page.download
              /\ stamp["zip_data"] = "latest"
              /\ Len(Get(session_state, "conversion_errors", <<>>)) = Len(origin.err)
              /\ \A k \in 1..Len(origin.err) :
                    session_state["conversion_errors"][k][1]
                        = uploaded_files[origin.err[k]].name

\* C8 witness: the archive step failed after a success and a per-item error,
\* with the archive of an earlier success still in session state
C8_Witness ==
    /\ Ran
    /\ page.error = "zipfail"
    /\ origin.conv # <<>>
    /\ origin.err # <<>>
    /\ "zip_data" \in DOMAIN session_state

\* the last successful position whose output name is that of position i
LastWriter(i) ==
    CHOOSE j \in 1..Len(uploaded_files) :
        /\ Count(origin.conv, j) = 1
        /\ OwnName(j) = OwnName(i)
        /\ \A m \in 1..Len(uploaded_files) :
              (Count(origin.conv, m) = 1 /\ OwnName(m) = OwnName(i)) => m <= j

\* C9: a failing item leaves nothing behind: it has no archive entry, and the
\* staged file and the archive entry of every converted item hold what they
\* would hold had the failing items not been in the batch, that is, the bytes
\* of the last converted item of that output name.
C9_FailureLeavesNoTrace ==
    /\ pc = "assemble" =>
          \A k \in 1..Len(converted_files) :
              /\ converted_files[k][1] \in DOMAIN temp_dir
              /\ temp_dir[converted_files[k][1]] = OwnBytes(LastWriter(origin.conv[k]))
    /\ Stored =>
          LET zip == session_state["zip_data"]
          IN  /\ Len(zip) = Len(origin.conv)
              /\ \A k \in 1..Len(zip) :
                    /\ zip[k].name = OwnName(origin.conv[k])
                    /\ zip[k].data = OwnBytes(LastWriter(origin.conv[k]))

\* the stored result is that of one conversion
OneResult(ss) ==
    /\ DOMAIN ss = Keys
    /\ ss["conversion_complete"] = TRUE
    /\ ss["converted_count"] = Len(ss["zip_data"])
    /\ ss["converted_count"] >= 1
    /\ ss["zip_size"] = ZipSize(ss["zip_data"])
    /\ ss["zip_filename"] = ZipFilename(ss["output_format"])

\* C10: whenever a finished rerun shows the download section, every stored
\* key was written by the most recent convert invocation, which had at least
\* one success; and only the end of a convert invocation changes session state.
C10_DownloadIsLatestConversion ==
    /\ [](pc = "idle" /\ page.download =>
              /\ \A k \in Keys : stamp[k] = "latest"
              /\ OneResult(session_state))
    /\ [][session_state' # session_state => pc = "assemble" /\ pc' = "idle"]_vars

\* C10 witness: the download section is shown again after the upload, the
\* format and the quality were changed and the archive was downloaded
C10_Witness ==
    /\ pc = "idle"
    /\ page.download
    /\ page.balloons
    /\ uploaded_files = <<>>
    /\ output_format = "JPG"
    /\ quality = 10
    /\ session_state["output_format"] = "PNG"

====
